---------------------------- MODULE Spec2Model ----------------------------
(***************************************************************************)
(* A model of the CinetPay transaction scraper (src/cinetpay_scraper).    *)
(*                                                                         *)
(* The page driver (Selenium) is the environment: what it finds on the    *)
(* page, and which of its operations raise, are inputs drawn with \E or   *)
(* fixed in Init.  Cell texts are sequences of one-character strings so   *)
(* that strip(), startswith() and strptime() are computed, not assumed.   *)
(***************************************************************************)
EXTENDS Integers, Sequences, FiniteSets, TLC

(***************************************************************************)
(* Text: Python str as a sequence of characters.                          *)
(***************************************************************************)
Whitespace == {" "}

RECURSIVE lstrip(_)
lstrip(s) ==
  IF s # <<>> /\ Head(s) \in Whitespace THEN lstrip(Tail(s)) ELSE s

RECURSIVE rstrip(_)
rstrip(s) ==
  IF s # <<>> /\ s[Len(s)] \in Whitespace
  THEN rstrip(SubSeq(s, 1, Len(s) - 1))
  ELSE s

\* str.strip()
strip(s) == rstrip(lstrip(s))

\* str.startswith(prefix)
startswith(s, prefix) ==
  /\ Len(s) >= Len(prefix)
  /\ SubSeq(s, 1, Len(prefix)) = prefix

\* Python truthiness of a str: non-empty.
Truthy(s) == s # <<>>

Loading == <<"L", "o", "a", "d", "i", "n", "g">>

(***************************************************************************)
(* datetime.strptime for the two formats the scraper uses.                *)
(***************************************************************************)
Digits == <<"0", "1", "2", "3", "4", "5", "6", "7", "8", "9">>

IsDigit(c) == \E i \in 1..10 : Digits[i] = c

DigitVal(c) == (CHOOSE i \in 1..10 : Digits[i] = c) - 1

AllDigits(s) == \A i \in 1..Len(s) : IsDigit(s[i])

RECURSIVE ParseInt(_)
ParseInt(s) ==
  IF s = <<>> THEN 0
  ELSE 10 * ParseInt(SubSeq(s, 1, Len(s) - 1)) + DigitVal(s[Len(s)])

\* The part of s before its first occurrence of sep (all of s when absent).
RECURSIVE UpTo(_, _)
UpTo(s, sep) ==
  IF s = <<>> \/ Head(s) \in sep THEN <<>>
  ELSE <<Head(s)>> \o UpTo(Tail(s), sep)

\* str.split(sep) for a one-character separator.
RECURSIVE SplitOn(_, _)
SplitOn(s, sep) ==
  LET first == UpTo(s, {sep}) IN
  IF Len(first) = Len(s) THEN <<first>>
  ELSE <<first>> \o SplitOn(SubSeq(s, Len(first) + 2, Len(s)), sep)

\* str.split(): the whitespace-separated tokens; no token for a blank text.
RECURSIVE split(_)
split(s) ==
  LET t == lstrip(s) IN
  IF t = <<>> THEN <<>>
  ELSE LET tok == UpTo(t, Whitespace) IN
       <<tok>> \o split(SubSeq(t, Len(tok) + 1, Len(t)))

IsLeap(y) == (y % 4 = 0 /\ y % 100 # 0) \/ y % 400 = 0

DaysInMonth(y, m) ==
  IF m = 2 THEN (IF IsLeap(y) THEN 29 ELSE 28)
  ELSE IF m \in {4, 6, 9, 11} THEN 30 ELSE 31

NoDate == [ok |-> FALSE, y |-> 0, m |-> 0, d |-> 0]

\* The datetime built from the three directive fields, or the ValueError.
MakeDate(ys, ms, ds) ==
  IF /\ Len(ys) = 4 /\ AllDigits(ys)
     /\ Len(ms) \in 1..2 /\ AllDigits(ms)
     /\ Len(ds) \in 1..2 /\ AllDigits(ds)
  THEN LET y == ParseInt(ys)
           m == ParseInt(ms)
           d == ParseInt(ds)
       IN IF y >= 1 /\ m \in 1..12 /\ d >= 1 /\ d <= DaysInMonth(y, m)
          THEN [ok |-> TRUE, y |-> y, m |-> m, d |-> d]
          ELSE NoDate
  ELSE NoDate

\* datetime.strptime(s, "%d-%m-%Y")
strptime_dmy(s) ==
  LET parts == SplitOn(s, "-") IN
  IF Len(parts) = 3 THEN MakeDate(parts[3], parts[2], parts[1]) ELSE NoDate

\* datetime.strptime(s, "%Y-%m-%d")
strptime_ymd(s) ==
  LET parts == SplitOn(s, "-") IN
  IF Len(parts) = 3 THEN MakeDate(parts[1], parts[2], parts[3]) ELSE NoDate

\* A comparison that leaves the equal date out.
C10_DateLt(a, b) ==
  \/ a.y < b.y
  \/ a.y = b.y /\ a.m < b.m
  \/ a.y = b.y /\ a.m = b.m /\ a.d < b.d

\* datetime.__le__ on two dates at midnight.
DateLe(a, b) ==
  \/ a.y < b.y
  \/ a.y = b.y /\ a.m < b.m
  \/ a.y = b.y /\ a.m = b.m /\ a.d <= b.d

\* A range test that lets a date through when it cannot be parsed.
C36_UnparsedInRange(date_text, start_date, end_date) ==
  LET toks == split(date_text) IN
  IF toks = <<>> THEN TRUE
  ELSE LET date_obj  == strptime_dmy(toks[1])
           start_obj == strptime_ymd(start_date)
           end_obj   == strptime_ymd(end_date)
       IN IF date_obj.ok /\ start_obj.ok /\ end_obj.ok
          THEN DateLe(start_obj, date_obj) /\ DateLe(date_obj, end_obj)
          ELSE TRUE

\* EnhancedTransactionIDScraper.is_date_in_range
is_date_in_range(date_text, start_date, end_date) ==
  LET toks == split(date_text) IN
  IF toks = <<>> THEN FALSE                       \* IndexError, caught
  ELSE LET date_obj  == strptime_dmy(toks[1])
           start_obj == strptime_ymd(start_date)
           end_obj   == strptime_ymd(end_date)
       IN IF date_obj.ok /\ start_obj.ok /\ end_obj.ok
          THEN DateLe(start_obj, date_obj) /\ DateLe(date_obj, end_obj)
          ELSE FALSE                              \* ValueError, caught

(***************************************************************************)
(* The grid's rows.  A row of the site is [id, date, short, day]: the     *)
(* text of its identifier and date columns, whether it is a short row (a  *)
(* single spanning cell, as the "no data" row is), and the index in Days  *)
(* of the calendar day its date text denotes (0 when it denotes none).    *)
(* The DOM cells are laid out per table.                                  *)
(***************************************************************************)
Filler == <<"x">>

\* The payments table: date, transaction id, phone, amount, status.
PaymentsCells(r) ==
  IF r.short THEN <<r.date>> ELSE <<r.date, r.id, Filler, Filler, Filler>>

\* The payout search table: date first, "ID Transaction Client" third.
PayoutCells(r) ==
  IF r.short THEN <<r.date>> ELSE <<r.date, Filler, r.id, Filler, Filler>>

PaymentsDom(rows) == [i \in 1..Len(rows) |-> PaymentsCells(rows[i])]

PayoutDom(rows) == [i \in 1..Len(rows) |-> PayoutCells(rows[i])]

\* date_filter=None, and a date_filter (start, end); from and to are the
\* indexes in Days of the days the two texts were written from.
NoFilter == [set |-> FALSE, start |-> <<>>, end |-> <<>>, from |-> 0, to |-> 0]

\* CinetPayScraper.extract_table_data, one row: the records it appends.
CinetPay_extract_row(cells) ==
  IF Len(cells) >= 5
  THEN LET transaction_id == strip(cells[2]) IN
       IF ~Truthy(transaction_id) THEN <<>>
       ELSE << [date |-> strip(cells[1]), transaction_id |-> transaction_id] >>
  ELSE <<>>

RECURSIVE CinetPay_extract_table_data(_)
CinetPay_extract_table_data(dom) ==
  IF dom = <<>> THEN <<>>
  ELSE CinetPay_extract_row(Head(dom)) \o CinetPay_extract_table_data(Tail(dom))

\* ImprovedCinetPayScraper.extract_table_data, one row: the td:nth-child(2)
\* cell of the row, when it has one.
extract_cell(cells) ==
  IF Len(cells) >= 2
  THEN LET transaction_id == strip(cells[2]) IN
       IF Truthy(transaction_id)
       THEN << [transaction_id |-> transaction_id] >>
       ELSE <<>>
  ELSE <<>>

RECURSIVE extract_table_data(_)
extract_table_data(dom) ==
  IF dom = <<>> THEN <<>>
  ELSE extract_cell(Head(dom)) \o extract_table_data(Tail(dom))

\* EnhancedTransactionIDScraper.extract_transaction_ids, one row.
extract_transaction_id(cells, date_filter) ==
  IF Len(cells) > 2
  THEN LET date_text      == strip(cells[1])
           transaction_id == strip(cells[3])
       IN IF /\ Truthy(transaction_id)
             /\ transaction_id # <<>>
             /\ ~startswith(transaction_id, Loading)
          THEN IF /\ date_filter.set
                  /\ ~is_date_in_range(date_text, date_filter.start,
                                       date_filter.end)
               THEN <<>>
               ELSE <<transaction_id>>
          ELSE <<>>
  ELSE <<>>

RECURSIVE extract_transaction_ids(_, _)
extract_transaction_ids(dom, date_filter) ==
  IF dom = <<>> THEN <<>>
  ELSE extract_transaction_id(Head(dom), date_filter)
         \o extract_transaction_ids(Tail(dom), date_filter)

\* FastCinetPayScraper.extract_transaction_ids_fast, one row.
extract_transaction_id_fast(cells) ==
  IF Len(cells) >= 2
  THEN LET txn_id == strip(cells[2]) IN
       IF Truthy(txn_id) /\ txn_id # <<>> THEN <<txn_id>> ELSE <<>>
  ELSE <<>>

RECURSIVE extract_transaction_ids_fast(_)
extract_transaction_ids_fast(dom) ==
  IF dom = <<>> THEN <<>>
  ELSE extract_transaction_id_fast(Head(dom))
         \o extract_transaction_ids_fast(Tail(dom))

\* The transaction_id column of a list of records.
Ids(records) == [i \in 1..Len(records) |-> records[i].transaction_id]

\* A row loop that gives up the rest of the page when a row cannot be read.
C37_AbortPage(rest) == <<>>

\* for row in rows: try: ... except Exception: continue -- the row yields
\* nothing and the loop goes on with the rest of the page.
SkipRow(rest) == rest

\* The ids the body of the row loop appends for one row, per scraper class.
RowIds(sc, cells) ==
  CASE sc = "CinetPay" -> Ids(CinetPay_extract_row(cells))
    [] sc = "Enhanced" -> extract_transaction_id(cells, NoFilter)
    [] sc = "Fast"     -> extract_transaction_id_fast(cells)

\* The row loop of extract_table_data, extract_transaction_ids and
\* extract_transaction_ids_fast on a page of which some rows cannot be read:
\* stale[i] tells that reading row i raises (a stale element).
RECURSIVE extract_rows(_, _, _)
extract_rows(sc, dom, stale) ==
  IF dom = <<>> THEN <<>>
  ELSE IF Head(stale) THEN SkipRow(extract_rows(sc, Tail(dom), Tail(stale)))
  ELSE RowIds(sc, Head(dom)) \o extract_rows(sc, Tail(dom), Tail(stale))

(***************************************************************************)
(* Inputs: the texts a grid can hold.                                     *)
(***************************************************************************)
\* Calendar days in chronological order; filters and rows name them by index.
Days == << [y |-> 2024, m |-> 12, d |-> 31],
           [y |-> 2025, m |-> 1,  d |-> 1],
           [y |-> 2025, m |-> 1,  d |-> 15],
           [y |-> 2025, m |-> 1,  d |-> 31],
           [y |-> 2025, m |-> 2,  d |-> 1] >>

NumDays == Len(Days)

Pad2(n) == << Digits[(n \div 10) + 1], Digits[(n % 10) + 1] >>

Pad4(n) == Pad2(n \div 100) \o Pad2(n % 100)

\* The grid-native date format, DD-MM-YYYY.
DMY(day) == Pad2(day.d) \o <<"-">> \o Pad2(day.m) \o <<"-">> \o Pad4(day.y)

\* The filter's date format, YYYY-MM-DD.
YMD(day) == Pad4(day.y) \o <<"-">> \o Pad2(day.m) \o <<"-">> \o Pad2(day.d)

TimeOfDay == <<" ", "1", "0", ":", "3", "0">>

T1 == <<"T", "1">>
T2 == <<"T", "2">>

LoadingText == Loading \o <<".", ".", ".">>

\* Identifier cells: two identifiers, one of them also padded, and the three
\* kinds that are no identifier.
IdTexts == { T1, T2, <<" ">> \o T1 \o <<" ">>, <<>>, <<" ", " ">>, LoadingText }

Row(id, date, day) == [id |-> id, date |-> date, short |-> FALSE, day |-> day]

ShortRow == [id |-> <<>>, date |-> <<"N", "o", " ", "d", "a", "t", "a">>,
             short |-> TRUE, day |-> 0]

\* Rows that vary the identifier (on one day), rows that vary the date (with
\* one identifier), with and without a time of day, and rows whose date text
\* is no DD-MM-YYYY date.
ExtractRows ==
  { Row(id, DMY(Days[3]), 3) : id \in IdTexts }
    \cup { Row(T1, DMY(Days[i]), i) : i \in 1..NumDays }
    \cup { Row(T2, DMY(Days[i]) \o TimeOfDay, i) : i \in {1, 4} }
    \cup { Row(T2, <<>>, 0), Row(T2, YMD(Days[3]), 0), ShortRow }

\* The rows on one page of an extraction check.
MaxRows == 2

ExtractPages == UNION { [1..n -> ExtractRows] : n \in 0..MaxRows }

DateFilters ==
  { [set |-> TRUE, start |-> YMD(Days[p[1]]), end |-> YMD(Days[p[2]]),
     from |-> p[1], to |-> p[2]] :
       p \in { q \in (1..NumDays) \X (1..NumDays) : q[1] <= q[2] } }
    \cup {NoFilter}

(***************************************************************************)
(* The action link of a row and its data-json payload.                    *)
(***************************************************************************)
\* get_attribute("data-json"): None without the attribute.
NoAttribute == [set |-> FALSE, text |-> <<>>]

Attribute(text) == [set |-> TRUE, text |-> text]

\* The .payment-action element of a row, if it has one.
NoActionLink == [present |-> FALSE, data_json |-> NoAttribute]

ActionLink(data_json) == [present |-> TRUE, data_json |-> data_json]

EmptyObject == <<"{", "}">>
OneKeyObject == <<"{", "\"", "k", "\"", ":", "1", "}">>
EmptyArray == <<"[", "]">>
Null == <<"n", "u", "l", "l">>

\* json.loads for the texts of Payloads: the type of the value, or
\* JSONDecodeError.  White space around the value is allowed.
json_loads(text) ==
  LET t == strip(text)
  IN CASE t \in {EmptyObject, OneKeyObject} -> [ok |-> TRUE, type |-> "dict"]
       [] t = EmptyArray -> [ok |-> TRUE, type |-> "list"]
       [] t = Null -> [ok |-> TRUE, type |-> "NoneType"]
       [] t # <<>> /\ AllDigits(t) -> [ok |-> TRUE, type |-> "int"]
       [] Len(t) >= 2 /\ Head(t) = "\"" /\ t[Len(t)] = "\""
            /\ (\A i \in 2..(Len(t) - 1) : t[i] \notin {"\"", "\\"})
            -> [ok |-> TRUE, type |-> "str"]
       [] OTHER -> [ok |-> FALSE, type |-> "JSONDecodeError"]

\* The data-json texts of a row: objects, values that are no object, an
\* object cut short, no JSON at all, the empty text.
Payloads ==
  { EmptyObject, OneKeyObject, <<" ">> \o EmptyObject, EmptyArray, Null,
    <<"5">>, <<"\"", "a", "\"">>, <<"{">>, <<"{", "\"", "k", "\"", ":">>,
    <<"<", "p", ">">>, <<>> }

ActionLinks ==
  { NoActionLink, ActionLink(NoAttribute) }
    \cup { ActionLink(Attribute(t)) : t \in Payloads }

\* CinetPayScraper.extract_table_data, one row with its action link: the
\* record is the base record, updated from the payload when it is an object.
\* The inner except clause catches NoSuchElementException and
\* JSONDecodeError; payment_data.get on a value that is no dict raises
\* AttributeError, which the except clause of the row catches: continue.
CinetPay_extract_row_enriched(cells, link) ==
  LET base == CinetPay_extract_row(cells)
      kept(enriched) ==
        [i \in 1..Len(base) |->
           [date |-> base[i].date, transaction_id |-> base[i].transaction_id,
            enriched |-> enriched]]
  IN IF base = <<>> THEN <<>>
     ELSE IF ~link.present THEN kept(FALSE)
     ELSE IF ~link.data_json.set \/ ~Truthy(link.data_json.text) THEN kept(FALSE)
     ELSE LET payment_data == json_loads(link.data_json.text)
          IN IF ~payment_data.ok THEN kept(FALSE)
             ELSE IF payment_data.type = "dict" THEN kept(TRUE)
             ELSE <<>>

(***************************************************************************)
(* The site: per country, the pages of its transactions.                  *)
(***************************************************************************)
\* Config.COUNTRY_CODES, in its order.
COUNTRY_CODES == <<"237", "225", "221", "226", "228">>

\* The countries of a run: the first NumPartitions of COUNTRY_CODES.
NumPartitions == 2

PARTITIONS == SubSeq(COUNTRY_CODES, 1, NumPartitions)

Letters == <<"A", "B", "C", "D", "E", "F">>

\* A row of country p's grid, by the kind of its identifier cell: an
\* identifier, one padded with spaces, an empty cell, a cell still showing
\* the loading placeholder.
Cell(kind, n) == [kind |-> kind, n |-> n]

IdOf(p, c) ==
  CASE c.kind = "ok"      -> <<Letters[p], Digits[c.n + 1]>>
    [] c.kind = "padded"  -> <<" ", Letters[p], Digits[c.n + 1], " ">>
    [] c.kind = "empty"   -> <<>>
    [] c.kind = "loading" -> LoadingText

\* Grids: one page without rows; one page of one row; two pages, with an
\* empty and a padded identifier; one page with a row not hydrated yet.
ShapeNone == << <<>> >>
ShapeOne == << <<Cell("ok", 1)>> >>
ShapeTwo == << <<Cell("ok", 1), Cell("empty", 0)>>, <<Cell("padded", 2)>> >>
ShapeLoading == << <<Cell("ok", 1), Cell("loading", 0)>> >>

Shapes == {ShapeNone, ShapeOne, ShapeTwo, ShapeLoading}

\* The pages of country p: each row with its owner and its texts.
MkGrid(p, shape) ==
  [i \in 1..Len(shape) |->
     [j \in 1..Len(shape[i]) |->
        [owner |-> p, kind |-> shape[i][j].kind, n |-> shape[i][j].n,
         row |-> Row(IdOf(p, shape[i][j]), DMY(Days[3]), 3)]]]

\* Every country with the same one-page grid, and a site whose first two
\* countries have a grid of two pages.
Sites ==
  { [p \in 1..NumPartitions |-> MkGrid(p, sh)] : sh \in Shapes \ {ShapeTwo} }
    \cup { [p \in 1..NumPartitions |->
              MkGrid(p, IF p <= 2 THEN ShapeTwo ELSE ShapeOne)] }

\* Without a country filter the grid lists every country's transactions.
RECURSIVE AllPages(_, _)
AllPages(s, n) == IF n = 0 THEN <<>> ELSE AllPages(s, n - 1) \o s[n]

\* The rows of one page as the site holds them.
RowsOf(page) == [j \in 1..Len(page) |-> page[j].row]

(***************************************************************************)
(* Pagination.                                                             *)
(***************************************************************************)
\* The pagination bar: rendered when there is more than one page; the active
\* item, the numbered links, the class of the last item (the next control).
\* A runaway bar never shows the next control disabled.
PaginationDom(pages, cur, stuck) ==
  [present       |-> stuck \/ Len(pages) > 1,
   active        |-> cur,
   links         |-> 1..Len(pages),
   next_disabled |-> ~stuck /\ cur >= Len(pages)]

Max(S) == CHOOSE x \in S : \A y \in S : y <= x

Range(seq) == { seq[i] : i \in 1..Len(seq) }

\* A default that reports a next page.
C25_DefaultHasNext == [current_page |-> 1, total_pages |-> 1, has_next |-> TRUE]

\* except Exception: return {'current_page': 1, 'total_pages': 1, 'has_next': False}
DefaultPagination == [current_page |-> 1, total_pages |-> 1, has_next |-> FALSE]

\* ImprovedCinetPayScraper.get_pagination_info (CinetPayScraper's is the same
\* code): find_element raises when the bar has no active item.
get_pagination_info(dom) ==
  IF dom.present
  THEN [current_page |-> dom.active,
        total_pages  |-> Max({1} \cup dom.links),
        has_next     |-> ~dom.next_disabled]
  ELSE DefaultPagination

\* EnhancedTransactionIDScraper.get_pagination_info
Enhanced_get_pagination_info(dom) ==
  IF dom.present
  THEN [current_page |-> dom.active,
        total_pages  |-> Max({dom.active} \cup dom.links),
        has_next     |-> ~dom.next_disabled]
  ELSE DefaultPagination

\* int(text): surrounding white space is dropped, a sign is allowed; any
\* other text raises ValueError.
int(text) ==
  LET t == strip(text)
  IN IF t # <<>> /\ AllDigits(t) THEN [ok |-> TRUE, val |-> ParseInt(t)]
     ELSE IF Len(t) > 1 /\ Head(t) \in {"-", "+"} /\ AllDigits(Tail(t))
     THEN [ok |-> TRUE,
           val |-> IF Head(t) = "-" THEN 0 - ParseInt(Tail(t)) ELSE ParseInt(Tail(t))]
     ELSE [ok |-> FALSE, val |-> 0]

\* The pagination bar as the page holds it: whether there is one, the text
\* of its active item (if it has one), the texts of its page links, and its
\* last item: "none", "enabled" or "disabled".
NoActive == [set |-> FALSE, text |-> <<>>]

PageBar(present, active, links, last) ==
  [present |-> present, active |-> active, links |-> links, last |-> last]

\* The numbers among the texts of the page links (ValueError: continue).
PageNumbers(links) == { int(t).val : t \in { u \in links : int(u).ok } }

\* CinetPayScraper.get_pagination_info, from the texts of the bar:
\* find_element raises without an active item, int() on a text that is no
\* number; both end in the except clause.
CinetPay_get_pagination_info(bar) ==
  IF ~bar.present \/ ~bar.active.set THEN DefaultPagination
  ELSE IF ~int(bar.active.text).ok THEN DefaultPagination
  ELSE get_pagination_info(
         [present |-> TRUE, active |-> int(bar.active.text).val,
          links |-> PageNumbers(bar.links),
          next_disabled |-> bar.last # "enabled"])

\* EnhancedTransactionIDScraper.get_pagination_info, from the texts of the
\* bar: current_page is 1 without an active item or on ValueError.
Enhanced_get_pagination_info_text(bar) ==
  IF ~bar.present THEN DefaultPagination
  ELSE Enhanced_get_pagination_info(
         [present |-> TRUE,
          active |-> IF bar.active.set /\ int(bar.active.text).ok
                     THEN int(bar.active.text).val ELSE 1,
          links |-> PageNumbers(bar.links),
          next_disabled |-> bar.last # "enabled"])

\* The texts of the items of a bar: page numbers, a number with a space
\* before it, the arrow of the next control.
PageTexts == { <<"0">>, <<"1">>, <<"2">>, <<" ", "3">>, <<"-", "1">>, <<">">> }

\* The bars a read is checked on; the active item is one of the page links.
PageBars ==
  { PageBar(FALSE, NoActive, {}, "none") }
    \cup { PageBar(TRUE, a, l, n) :
             a \in {NoActive} \cup { [set |-> TRUE, text |-> t] : t \in PageTexts },
             l \in SUBSET PageTexts,
             n \in {"none", "enabled", "disabled"} }

\* FastCinetPayScraper.has_next_page
has_next_page(dom) == IF dom.present THEN ~dom.next_disabled ELSE FALSE

\* What the two waits of wait_for_table_load meet: #loader is not in the
\* page ("absent"), goes away in time ("gone") or stays ("timeout"); a row of
\* the grid is there in time ("present") or not ("timeout").
Wait(loader, rows) == [loader |-> loader, rows |-> rows]

Loaded == Wait("gone", "present")

WaitOutcomes ==
  { Wait(l, r) : l \in {"absent", "gone", "timeout"}, r \in {"present", "timeout"} }

\* A wait that lets the timeout of the wait for rows escape.
C30_WaitRaises(w) == [raised |-> w.rows = "timeout", value |-> "None"]

\* ImprovedCinetPayScraper.wait_for_table_load: both TimeoutExceptions are
\* caught; nothing is returned.
wait_for_table_load(w) == [raised |-> FALSE, value |-> "None"]

\* CinetPayScraper.wait_for_table_load: every exception is caught; False
\* when no row came.
CinetPay_wait_for_table_load(w) ==
  [raised |-> FALSE, value |-> IF w.rows = "present" THEN "True" ELSE "False"]

\* What the driver does with one call to advance: whether the next control
\* is found, whether its parent is disabled, what each way of clicking
\* does: "ok", "intercepted" (ElementClickInterceptedException) or "error"
\* (any other exception), and what the wait after the click meets.
Click(resolved, disabled, native, scripted, synthetic) ==
  [resolved |-> resolved, disabled |-> disabled, native |-> native,
   scripted |-> scripted, synthetic |-> synthetic, wait |-> Loaded]

ClickOutcomes ==
  { Click(FALSE, FALSE, "ok", "ok", "ok"),
    Click(TRUE, TRUE, "ok", "ok", "ok"),
    Click(TRUE, FALSE, "ok", "ok", "ok"),
    Click(TRUE, FALSE, "intercepted", "ok", "ok"),
    Click(TRUE, FALSE, "intercepted", "error", "ok"),
    Click(TRUE, FALSE, "intercepted", "error", "error"),
    Click(TRUE, FALSE, "error", "ok", "ok"),
    Click(TRUE, FALSE, "error", "error", "ok"),
    Click(TRUE, FALSE, "error", "error", "error") }

Advance(result, tried) == [result |-> result, tried |-> tried]

\* self.wait_for_table_load(); return True -- inside the try block of
\* go_to_next_page, whose except clause returns False.
AfterClick(waited, tried) == Advance(~waited.raised, tried)

\* ImprovedCinetPayScraper.go_to_next_page: the result and the click methods
\* it invoked, in order.
go_to_next_page(o) ==
  IF ~o.resolved THEN Advance(FALSE, <<>>)            \* TimeoutException
  ELSE IF o.disabled THEN Advance(FALSE, <<>>)
  ELSE IF o.native = "ok"
       THEN AfterClick(wait_for_table_load(o.wait), <<"native">>)
  ELSE IF o.native = "intercepted"
       THEN IF o.scripted = "ok"
            THEN AfterClick(wait_for_table_load(o.wait),
                            <<"native", "scripted">>)
            ELSE IF o.synthetic = "ok"
            THEN AfterClick(wait_for_table_load(o.wait),
                            <<"native", "scripted", "synthetic">>)
            ELSE Advance(FALSE, <<"native", "scripted", "synthetic">>)
       ELSE Advance(FALSE, <<"native">>)              \* outer except

\* CinetPayScraper.go_to_next_page
CinetPay_go_to_next_page(o) ==
  IF ~o.resolved THEN Advance(FALSE, <<>>)
  ELSE IF o.disabled THEN Advance(FALSE, <<>>)
  ELSE IF o.native = "ok"
       THEN AfterClick(CinetPay_wait_for_table_load(o.wait), <<"native">>)
  ELSE IF o.scripted = "ok"
       THEN AfterClick(CinetPay_wait_for_table_load(o.wait),
                       <<"native", "scripted">>)
  ELSE Advance(FALSE, <<"native", "scripted">>)

\* EnhancedTransactionIDScraper.go_to_next_page
Enhanced_go_to_next_page(o) ==
  IF ~o.resolved THEN Advance(FALSE, <<>>)
  ELSE IF o.disabled THEN Advance(FALSE, <<>>)
  ELSE IF o.native = "ok" THEN Advance(TRUE, <<"native">>)
  ELSE Advance(o.scripted = "ok", <<"native", "scripted">>)

\* FastCinetPayScraper.go_next_page
go_next_page(o) ==
  IF ~o.resolved THEN Advance(FALSE, <<>>)
  ELSE Advance(o.scripted = "ok", <<"scripted">>)

\* The selectors go_to_next_page looks the next control up with, in the
\* order of the list.
next_selectors ==
  <<".pagination .page-item:last-child button",
    ".pagination .page-item:last-child a",
    "a[rel='next']",
    "button[wire\\:click*='nextPage']">>

Enhanced_next_selectors ==
  <<".pagination .page-item:last-child .page-link",
    "a[rel='next']",
    ".pagination .next .page-link",
    "button[wire\\:click*='nextPage']">>

Selectors == Range(next_selectors) \cup Range(Enhanced_next_selectors)

\* for selector in next_selectors: try: find_element(selector); break
\* except NoSuchElementException: continue -- the selector that gave the
\* control, given the selectors that match an element of the page.
RECURSIVE find_first(_, _)
find_first(selectors, found) ==
  IF selectors = <<>> THEN "none"
  ELSE IF Head(selectors) \in found THEN Head(selectors)
  ELSE find_first(Tail(selectors), found)

\* The look-up of each scraper class: CinetPayScraper and
\* EnhancedTransactionIDScraper go through their lists, the other two look
\* for the button of the last pagination item only.
next_button(sc, found) ==
  CASE sc = "CinetPay" -> find_first(next_selectors, found)
    [] sc = "Enhanced" -> find_first(Enhanced_next_selectors, found)
    [] sc = "Improved" -> find_first(<<next_selectors[1]>>, found)
    [] sc = "Fast"     -> find_first(<<next_selectors[1]>>, found)

\* The pages an advance is checked on: the selectors that match, the state
\* of the control and of its clicks, the wait after the click.
AdvanceInputs ==
  { [found |-> f, click |-> [c EXCEPT !.wait = w]] :
      f \in SUBSET Selectors,
      c \in { d \in ClickOutcomes : d.resolved },
      w \in WaitOutcomes }

(***************************************************************************)
(* The filter controls of EnhancedTransactionIDScraper.  A page is the set *)
(* of selectors that match an element of it, the selector whose element    *)
(* comes first in the document, and whether some select element passes the *)
(* attribute test of set_country_filter.                                   *)
(***************************************************************************)
\* set_date_filter looks its inputs up with one selector list; the
\* elements come back in the order of the document.
date_selectors == <<"input[type='date']", "input[wire\\:model*='date']">>

status_selectors ==
  <<"select[wire\\:model*='status']", "select[name*='status']">>

country_selectors ==
  <<"select[id='country']",
    "select[id='country'][wire\\:model*='country']",
    "select[wire\\:model*='country']",
    "select[name*='country']",
    "select.form-select",
    "select[wire\\:model.defer='country']">>

SelectorSet(field) ==
  CASE field = "date_range" -> date_selectors
    [] field = "status"     -> status_selectors
    [] field = "country"    -> country_selectors

ControlPage(field, found, first, by_attribute) ==
  [field |-> field, found |-> found, first |-> first,
   by_attribute |-> by_attribute]

\* What a setter did: the selector whose element it operated, whether it
\* went through the driver's native interaction, whether it ran the script.
ControlSet(used, native, scripted) ==
  [used |-> used, native |-> native, scripted |-> scripted]

\* date_inputs = find_elements("input[type='date'], input[wire\:model*=
\* 'date']"); if date_inputs: clear, send_keys; else: execute_script
Enhanced_set_date_filter(page) ==
  IF page.found # {} THEN ControlSet(page.first, TRUE, FALSE)
  ELSE ControlSet("none", FALSE, TRUE)

\* status_selects = find_elements("select[wire\:model*='status'],
\* select[name*='status']"); if status_selects: Select(status_selects[0])
\* .select_by_value; else: execute_script
set_status_filter(page) ==
  IF page.found # {} THEN ControlSet(page.first, TRUE, FALSE)
  ELSE ControlSet("none", FALSE, TRUE)

\* for selector in selectors: elements = find_elements(selector); if
\* elements: break -- then Select(country_select).select_by_value, else the
\* select elements of the page are tested by their attributes and the first
\* that passes is set through Select as well; there is no script.
set_country_filter(page) ==
  LET used == find_first(country_selectors, page.found) IN
  IF used # "none" THEN ControlSet(used, TRUE, FALSE)
  ELSE IF page.by_attribute THEN ControlSet("attribute", TRUE, FALSE)
  ELSE ControlSet("none", FALSE, FALSE)

ControlPages ==
  { ControlPage("country", f, "none", a) :
      f \in SUBSET Range(country_selectors), a \in BOOLEAN }
  \cup { ControlPage(fd, {}, "none", FALSE) : fd \in {"date_range", "status"} }
  \cup UNION { UNION { { ControlPage(fd, f, s, FALSE) : s \in f } :
                        f \in SUBSET Range(SelectorSet(fd)) } :
                fd \in {"date_range", "status"} }

(***************************************************************************)
(* The programs that drive a scraper, and the state of a run.              *)
(***************************************************************************)
Entries ==
  {"scrape_all_countries", "scrape_transaction_ids", "main_scraper",
   "enhanced_main", "fast_main", "scrape_country"}

\* The scraper class each program drives.
ScraperOf(e) ==
  CASE e = "scrape_all_countries"   -> "Improved"
    [] e = "scrape_transaction_ids" -> "Improved"
    [] e = "main_scraper"           -> "CinetPay"
    [] e = "enhanced_main"          -> "Enhanced"
    [] e = "fast_main"              -> "Fast"
    [] e = "scrape_country"         -> "CinetPay"

\* The programs that loop over the countries.
Multi(e) ==
  e \in {"scrape_all_countries", "enhanced_main", "fast_main", "scrape_country"}

\* The countries a program scrapes, by their place in COUNTRY_CODES; 0 is a
\* run without a country filter.
Countries(e) ==
  IF Multi(e) THEN [i \in 1..NumPartitions |-> i]
  ELSE IF e = "main_scraper" THEN <<1>> ELSE <<0>>

\* max_pages: None, or an int.
NoMax == [set |-> FALSE, val |-> 0]

MaxMaxPages == 1

MaxPagesInputs == {NoMax} \cup { [set |-> TRUE, val |-> n] : n \in 0..MaxMaxPages }

\* Python truthiness of max_pages: None and 0 are falsy.
TruthyInt(m) == m.set /\ m.val # 0

\* "Safety limit of 100 pages" in scrape_transaction_ids.main.
SAFETY_LIMIT == 100

\* The model stops a page loop that has read this many pages.
MaxPageCount == 102

\* How often in a run a click that raised nothing leaves the grid on the
\* page it was on.
MaxRereads == 1

\* What the driver does with the filter form: whether the country select and
\* the submit button are found, and whether the Enter key submits the form.
FilterForm(country, submit, enter) ==
  [country |-> country, submit |-> submit, enter |-> enter]

FilterOk == FilterForm(TRUE, TRUE, FALSE)

FilterOutcomes ==
  { FilterOk, FilterForm(FALSE, TRUE, FALSE), FilterForm(TRUE, FALSE, FALSE),
    FilterForm(TRUE, FALSE, TRUE) }

ClickOk == Click(TRUE, FALSE, "ok", "ok", "ok")

\* The filter fields the program sets for each country, after it has loaded
\* the page.
FieldsSet(e) ==
  CASE e = "scrape_all_countries"   -> {"country", "status", "date_range"}
    [] e = "scrape_transaction_ids" -> {"date_range"}
    [] e = "main_scraper"           -> {"country", "status", "date_range"}
    [] e = "enhanced_main"          -> {"country"}
    [] e = "fast_main"              -> {"country", "status", "date_range"}
    [] e = "scrape_country"         -> {"country", "status", "date_range"}

\* The filter fields the program sets once, before its country loop.
BeforeLoop(e) == IF e = "enhanced_main" THEN {"date_range", "status"} ELSE {}

\* The filters every country of the run is to be scraped under.
BaseFilters == {"status", "date_range"}

\* CinetPayScraper.navigate_to_transactions returns at once when the browser
\* is already on the transactions page.
AlreadyThere(sc, url) == sc = "CinetPay" /\ url = "transactions"

\* Where the browser is after a navigation that raised: driver.get may have
\* failed, or the table may not have shown in time.
UrlsAfterFailure(sc, url) ==
  IF sc = "CinetPay" THEN {"dashboard", "transactions"} ELSE {url}

(***************************************************************************)
(* save_to_csv.  A record is kept as its transaction_id: whether the dict  *)
(* has the key, whether the value is None, and its text.                   *)
(***************************************************************************)
SaveRecord(key, set, text) == [key |-> key, set |-> set, text |-> text]

\* A dict without a 'transaction_id' key.
NoKey == SaveRecord(FALSE, FALSE, <<>>)

\* 'transaction_id': None
NoneId == SaveRecord(TRUE, FALSE, <<>>)

SaveRecords ==
  {NoKey, NoneId}
    \cup { SaveRecord(TRUE, TRUE, t) : t \in {<<>>, <<" ">>, <<"T", "1">>, <<"T", "2">>} }

MaxRecords == 3

SaveInputs == UNION { [1..n -> SaveRecords] : n \in 0..MaxRecords }

\* Nothing was written: save_to_csv returned None.
NotWritten == [file |-> FALSE, rows |-> <<>>]

Written(rows) == [file |-> TRUE, rows |-> rows]

\* df['transaction_id'].notna(): a missing key and None are both NaN.
notna(r) == r.key /\ r.set

\* CinetPayScraper.save_to_csv(transactions)
CinetPay_save_to_csv(transactions) ==
  IF transactions = <<>> THEN NotWritten
  ELSE LET has_column == \E i \in 1..Len(transactions) : transactions[i].key
           valid_transactions ==
             SelectSeq(transactions, LAMBDA r : notna(r) /\ r.text # <<>>)
       IN IF has_column
          THEN IF Len(valid_transactions) = 0 THEN NotWritten
               ELSE IF Len(valid_transactions) < Len(transactions)
               THEN Written(valid_transactions)
               ELSE Written(transactions)
          ELSE Written(transactions)

\* ImprovedCinetPayScraper.save_to_csv(transactions): a header, and one row
\* for every dict that has the key.
save_to_csv(transactions) ==
  IF transactions = <<>> THEN Written(<<>>)
  ELSE Written(SelectSeq(transactions, LAMBDA r : r.key))

(***************************************************************************)
(* set_filters.  The driver's part is the set of controls it fails at.     *)
(***************************************************************************)
Fields == <<"business", "country", "status", "date_range">>

Controls == Range(Fields) \cup {"submit"}

FilterCall(spec, fails) == [spec |-> spec, fails |-> fails]

FilterCalls ==
  { FilterCall(spec, fails) : spec \in SUBSET Range(Fields), fails \in SUBSET Controls }

\* A function without a return statement returns None.
ReturnsNone == [set |-> FALSE, fields |-> {}]

FilterStart ==
  [raised |-> FALSE, attempted |-> {}, ok |-> {}, submit |-> FALSE,
   returned |-> ReturnsNone]

\* if <field>: try: ... except Exception: logger.warning(...)
SoftField(f, call, st) ==
  IF f \notin call.spec THEN st
  ELSE [st EXCEPT !.attempted = @ \cup {f},
                  !.ok = IF f \in call.fails THEN @ ELSE @ \cup {f}]

\* CinetPayScraper.set_filters, ImprovedCinetPayScraper.set_filters: the four
\* fields in turn, then the submit button, each in a try of its own.
set_filters(call) ==
  LET s1 == SoftField(Fields[1], call, FilterStart)
      s2 == SoftField(Fields[2], call, s1)
      s3 == SoftField(Fields[3], call, s2)
      s4 == SoftField(Fields[4], call, s3)
  IN [s4 EXCEPT !.submit = TRUE]

\* A statement of set_filters_fast: skipped once an earlier one has raised.
HardField(f, call, st) ==
  IF st.raised THEN st
  ELSE [st EXCEPT !.attempted = @ \cup {f},
                  !.ok = IF f \in call.fails THEN @ ELSE @ \cup {f},
                  !.raised = f \in call.fails]

\* FastCinetPayScraper.set_filters_fast: country, status, date range and the
\* submit button in one try that logs and raises again.
set_filters_fast(call) ==
  LET s1 == HardField("country", call, FilterStart)
      s2 == HardField("status", call, s1)
      s3 == HardField("date_range", call, s2)
  IN IF s3.raised THEN s3
     ELSE [s3 EXCEPT !.submit = TRUE, !.raised = "submit" \in call.fails]

\* EnhancedTransactionIDScraper.set_date_filter: the date inputs, in one try
\* that logs a warning; the form is submitted by search_transactions.
set_date_filter(call) ==
  [FilterStart EXCEPT !.attempted = {"date_range"},
                      !.ok = {"date_range"} \ call.fails]

\* A page without a table.
BlankView == << <<>> >>

\* get_summary_stats() of no transactions: {}.
NoStats == [total_transactions |-> 0, countries |-> {}]

\* transaction.get('country_name', 'Unknown') of a record that holds a
\* transaction_id and nothing else.
country_name(tx) == "Unknown"

\* get_summary_stats(transactions): the total, and the count per country_name
\* as pairs <<name, count>>.
get_summary_stats(transactions) ==
  IF transactions = <<>> THEN NoStats
  ELSE [total_transactions |-> Len(transactions),
        countries |->
          { <<c, Cardinality({ i \in 1..Len(transactions) :
                                 country_name(transactions[i]) = c })>> :
            c \in { country_name(transactions[i]) : i \in 1..Len(transactions) } }]

\* Records as the summary reads them: for each key either its value or
\* Absent, when the record has no such key.
Absent == "<absent>"

StatColumns == {"status", "payment_method", "currency"}

StatRecord(status, payment_method, currency, country) ==
  [status |-> status, payment_method |-> payment_method,
   currency |-> currency, country_name |-> country]

StatRecordsOf ==
  { StatRecord(s, m, c, n) :
      s \in {"ACCEPTED", "REFUSED", Absent}, m \in {"OM", Absent},
      c \in {"XOF", Absent}, n \in {"Togo", Absent} }

\* The records of one summary.
MaxStatRecords == 2

StatInputs == UNION { [1..n -> StatRecordsOf] : n \in 0..MaxStatRecords }

\* 'col' in df.columns: pd.DataFrame(transactions) has a column for every
\* key that some record has.
in_columns(records, col) == \E i \in 1..Len(records) : records[i][col] # Absent

\* df[col].value_counts().to_dict(): the count of each value; a record
\* without the key has NaN in the column, which value_counts leaves out.
value_counts(records, col) ==
  [v \in { records[i][col] : i \in 1..Len(records) } \ {Absent} |->
     Cardinality({ i \in 1..Len(records) : records[i][col] = v })]

\* countries[country] = countries.get(country, 0) + 1 with
\* country = transaction.get('country_name', 'Unknown')
country_counts(records) ==
  LET name(i) == IF records[i].country_name = Absent THEN "Unknown"
                 ELSE records[i].country_name
  IN [c \in { name(i) : i \in 1..Len(records) } |->
        Cardinality({ i \in 1..Len(records) : name(i) = c })]

\* if not transactions: return {}
EmptyStats == [has_total |-> FALSE, total_transactions |-> 0, groups |-> <<>>]

BreakdownOf == [status |-> "status_breakdown", payment_method |-> "payment_methods",
                currency |-> "currencies"]

\* The breakdowns both classes compute from the DataFrame.
Breakdowns(records) ==
  LET cols == { c \in StatColumns : in_columns(records, c) }
  IN [b \in { BreakdownOf[c] : c \in cols } |->
        value_counts(records, CHOOSE c \in cols : BreakdownOf[c] = b)]

\* CinetPayScraper.get_summary_stats(transactions)
CinetPay_get_summary_stats(records) ==
  IF records = <<>> THEN EmptyStats
  ELSE [has_total |-> TRUE, total_transactions |-> Len(records),
        groups |-> Breakdowns(records)]

\* ImprovedCinetPayScraper.get_summary_stats(transactions), on records with
\* their keys.
Improved_get_summary_stats(records) ==
  IF records = <<>> THEN EmptyStats
  ELSE [has_total |-> TRUE, total_transactions |-> Len(records),
        groups |-> [b \in {"countries"} \cup DOMAIN Breakdowns(records) |->
                      IF b = "countries" THEN country_counts(records)
                      ELSE Breakdowns(records)[b]]]

NoAdvance ==
  [called |-> FALSE, by |-> "none", click |-> ClickOk, tried |-> <<>>,
   result |-> FALSE]

VARIABLES
  entry,                \* the program that runs
  site,                 \* the site's grids, per country
  runaway,              \* the pagination bar never shows a last page
  max_pages,            \* max_pages / max_pages_per_country
  pc,                   \* where the run is
  k,                    \* the place in Countries(entry) of the current country
  view,                 \* the pages of the grid as filtered
  cur_page,             \* the page the grid shows
  page_count,           \* page_count of the page loop
  pagination_info,      \* the last get_pagination_info()
  country_transactions, \* the page loop's list (transaction ids)
  all_transactions,     \* the run's list (transaction ids)
  errors,               \* countries reported as failed, in order
  attempted,            \* countries whose iteration began, in order
  origin,               \* for each of all_transactions, its country
  sessions,             \* the finished page loops
  pages_processed,      \* pages extracted in the whole run
  rereads,              \* clicks that left the grid on its page
  last_advance,         \* the last go_to_next_page call
  filtered,             \* the country filter is applied to the view
  clean,                \* every advance of the page loop moved one page on
  failures,             \* what the driver failed to do, per country
  current_url,          \* driver.current_url: "dashboard" or "transactions"
  resets,               \* countries for which the base view was loaded, in order
  applied,              \* filter fields applied since the base view was loaded
  driver,               \* the browser session: "open" or "closed"
  exit_path,            \* how the program left its try block
  stats,                \* get_summary_stats() of the run's list
  ex_pc,                \* function check: "ready", "done" ("idle" in a run)
  ex_rows,              \* extraction check: the rows of the page
  ex_filter,            \* extraction check: date_filter
  ex_by,                \* function check: the scraper applied
  ex_out,               \* extraction check: the ids it returned
  sv_records,           \* save check: the records passed to save_to_csv
  sv_out,               \* save check: what save_to_csv wrote
  fl_in,                \* filter check: the fields to set, the controls that fail
  fl_out,               \* filter check: what set_filters did
  fn_in,                \* function check: what the driver shows the function
  fn_out                \* function check: what the function returned and did

vars ==
  <<entry, site, runaway, max_pages, pc, k, view, cur_page, page_count,
    pagination_info, country_transactions, all_transactions, errors,
    attempted, origin, sessions, pages_processed, rereads, last_advance,
    filtered, clean, failures, current_url, resets, applied, driver,
    exit_path, stats, ex_pc, ex_rows, ex_filter, ex_by, ex_out, sv_records,
    sv_out, fl_in, fl_out, fn_in, fn_out>>

runInputs == <<entry, site, runaway, max_pages>>

exVars == <<ex_pc, ex_rows, ex_filter, ex_by, ex_out>>

fnVars == <<sv_records, sv_out, fl_in, fl_out, fn_in, fn_out>>

\* What the program does after the country loop.
tailVars == <<driver, exit_path, stats>>

\* The identifiers a grid's pages hold in rows that are transactions, in
\* page and row order: what its cells were made from.
RECURSIVE ExpectedIds(_)
ExpectedIds(pages) ==
  IF pages = <<>> THEN <<>>
  ELSE LET page == Head(pages)
           keep == SelectSeq(page, LAMBDA c : c.kind \in {"ok", "padded"})
       IN [j \in 1..Len(keep) |-> <<Letters[keep[j].owner], Digits[keep[j].n + 1]>>]
            \o ExpectedIds(Tail(pages))

\* The ids one page yields, per scraper class (a record is kept as its
\* transaction_id).
Extracted(sc, rows) ==
  CASE sc = "Improved" -> Ids(extract_table_data(PaymentsDom(rows)))
    [] sc = "CinetPay" -> Ids(CinetPay_extract_table_data(PaymentsDom(rows)))
    [] sc = "Enhanced" -> extract_transaction_ids(PayoutDom(rows), NoFilter)
    [] sc = "Fast"     -> extract_transaction_ids_fast(PaymentsDom(rows))

PaginationInfo(sc, dom) ==
  CASE sc \in {"Improved", "CinetPay"} -> get_pagination_info(dom)
    [] sc = "Enhanced" -> Enhanced_get_pagination_info(dom)
    [] sc = "Fast" -> [DefaultPagination EXCEPT !.has_next = has_next_page(dom)]

Advanced(sc, o) ==
  CASE sc = "Improved" -> go_to_next_page(o)
    [] sc = "CinetPay" -> CinetPay_go_to_next_page(o)
    [] sc = "Enhanced" -> Enhanced_go_to_next_page(o)
    [] sc = "Fast"     -> go_next_page(o)

\* set_filters / set_country_filter + search_transactions: whether the
\* country filter takes effect.  The select is deferred until the form is
\* submitted; search_transactions falls back to the Enter key.
Applied(sc, f) ==
  IF sc = "Enhanced" THEN f.country /\ (f.submit \/ f.enter)
  ELSE f.country /\ f.submit

\* set_filters_fast raises when it cannot find a control.
Raises(sc, f) == sc = "Fast" /\ ~(f.country /\ f.submit)

\* A country loop that ends the run on the first country that raises.
C3_AbortOnError(kk, n) == [pc |-> "done", k |-> kk]

\* A country loop that starts the same country again.
C24_RetryPartition(kk, n) == [pc |-> "navigate", k |-> kk]

\* for country in ...: the next iteration, or the end of the loop.
LoopNext(kk, n) ==
  IF kk < n THEN [pc |-> "navigate", k |-> kk + 1] ELSE [pc |-> "done", k |-> kk]

\* except Exception: log the error; continue
OnPartitionError(kk, n) == LoopNext(kk, n)

\* A page loop that throws away what it collected when it cannot go on.
C12_DropOnFailure(txs) == <<>>

\* if not self.go_to_next_page(): break, then return all_transactions; the
\* except clause returns the same list.
PartialResult(txs) == txs

\* A page loop whose end is the end of the run.
C35_EndRun(p, txs, cl) ==
  /\ all_transactions' = all_transactions \o txs
  /\ origin' = origin \o [i \in 1..Len(txs) |-> p]
  /\ sessions' = Append(sessions,
       [p |-> p, ids |-> txs, clean |-> cl, expected |-> ExpectedIds(view)])
  /\ pc' = "done" /\ k' = k

\* The end of a page loop: the run's list is extended with the loop's.
EndPartition(p, txs, cl) ==
  /\ all_transactions' = all_transactions \o txs
  /\ origin' = origin \o [i \in 1..Len(txs) |-> p]
  /\ sessions' = Append(sessions,
       [p |-> p, ids |-> txs, clean |-> cl, expected |-> ExpectedIds(view)])
  /\ LET nx == LoopNext(k, Len(Countries(entry)))
     IN pc' = nx.pc /\ k' = nx.k

RunInit(stuck) ==
  /\ entry \in Entries
  /\ site \in Sites
  /\ runaway \in stuck
  /\ max_pages \in (IF entry \in {"scrape_transaction_ids", "fast_main",
                                  "scrape_country"}
                    THEN {NoMax}
                    ELSE IF entry = "main_scraper" THEN MaxPagesInputs
                    ELSE MaxPagesInputs \ {[set |-> TRUE, val |-> 0]})
  /\ pc = "navigate"
  /\ k = 1
  /\ view = <<>>
  /\ cur_page = 1
  /\ page_count = 0
  /\ pagination_info = DefaultPagination
  /\ country_transactions = <<>>
  /\ all_transactions = <<>>
  /\ errors = <<>>
  /\ attempted = <<>>
  /\ origin = <<>>
  /\ sessions = <<>>
  /\ pages_processed = 0
  /\ rereads = 0
  /\ last_advance = NoAdvance
  /\ filtered = FALSE
  /\ clean = TRUE
  /\ failures = {}
  /\ current_url = "dashboard"
  /\ resets = <<>>
  /\ applied = BeforeLoop(entry)
  /\ driver = "open"
  /\ exit_path = "none"
  /\ stats = NoStats

ExtractIdle ==
  /\ ex_pc = "idle"
  /\ ex_rows = <<>>
  /\ ex_filter = NoFilter
  /\ ex_by = "none"
  /\ ex_out = <<>>

CheckIdle ==
  /\ fn_in = <<>>
  /\ fn_out = <<>>

FnIdle ==
  /\ sv_records = <<>>
  /\ sv_out = NotWritten
  /\ fl_in = FilterCall({}, {})
  /\ fl_out = FilterStart
  /\ CheckIdle

Init == RunInit({FALSE}) /\ ExtractIdle /\ FnIdle

\* The start of the country's iteration: load the transactions page.
Navigate ==
  /\ pc = "navigate"
  /\ \E nav_ok \in (IF runaway THEN {TRUE} ELSE BOOLEAN) :
       LET p  == Countries(entry)[k]
           sc == ScraperOf(entry)
       IN
       /\ attempted' = Append(attempted, p)
       /\ last_advance' = NoAdvance
       /\ IF AlreadyThere(sc, current_url)
          THEN /\ pc' = "set_filters"
               /\ UNCHANGED <<k, view, cur_page, filtered, errors, failures,
                              current_url, resets, applied>>
          ELSE IF nav_ok
          THEN /\ view' = AllPages(site, NumPartitions)
               /\ cur_page' = 1
               /\ filtered' = FALSE
               /\ current_url' = "transactions"
               /\ resets' = Append(resets, p)
               /\ applied' = {}
               /\ pc' = "set_filters"
               /\ UNCHANGED <<k, errors, failures>>
          ELSE /\ errors' = Append(errors, p)
               /\ failures' = failures \cup {[p |-> p, what |-> "navigate"]}
               /\ LET nx == IF Multi(entry)
                            THEN OnPartitionError(k, Len(Countries(entry)))
                            ELSE [pc |-> "done", k |-> k]
                  IN pc' = nx.pc /\ k' = nx.k
               /\ \E u \in UrlsAfterFailure(sc, current_url) : current_url' = u
               /\ view' = BlankView
               /\ cur_page' = 1
               /\ filtered' = FALSE
               /\ applied' = {}
               /\ UNCHANGED resets
  /\ UNCHANGED <<runInputs, page_count, pagination_info, country_transactions,
                 all_transactions, origin, sessions, pages_processed, rereads,
                 clean, tailVars, exVars, fnVars>>

\* set_filters (set_country_filter and search_transactions; set_filters_fast)
\* and the start of the page loop.
SetFilters ==
  /\ pc = "set_filters"
  /\ \E f \in (IF runaway THEN {FilterOk} ELSE FilterOutcomes) :
       LET p  == Countries(entry)[k]
           sc == ScraperOf(entry)
           on == p # 0 /\ Applied(sc, f)
           submitted == f.submit \/ (sc = "Enhanced" /\ f.enter)
           done == FieldsSet(entry) \ (IF f.country THEN {} ELSE {"country"})
       IN
       /\ failures' = failures
            \cup { [p |-> p, what |-> "country"] : x \in {y \in {p} : y # 0 /\ ~f.country} }
            \cup { [p |-> p, what |-> "submit"] : x \in {y \in {p} : ~f.submit} }
       /\ page_count' = 0
       /\ country_transactions' = <<>>
       /\ last_advance' = NoAdvance
       /\ IF Raises(sc, f)
          THEN /\ errors' = Append(errors, p)
               /\ clean' = FALSE
               /\ EndPartition(p, <<>>, FALSE)
               /\ UNCHANGED <<view, cur_page, filtered, applied>>
          ELSE /\ filtered' = on
               /\ view' = IF on THEN site[p] ELSE view
               /\ \E page \in {1} \cup {cur_page} :
                    cur_page' = IF on /\ page > Len(site[p]) THEN 1 ELSE page
               /\ applied' = IF submitted THEN applied \cup done ELSE applied
               /\ clean' = TRUE
               /\ pc' = "scrape_page"
               /\ UNCHANGED <<k, errors, all_transactions, origin, sessions>>
  /\ UNCHANGED <<runInputs, pagination_info, attempted, pages_processed,
                 rereads, current_url, resets, tailVars, exVars, fnVars>>

\* A page loop that does not look at has_next.
C34_IgnoreHasNext(info) == FALSE

\* if not pagination_info['has_next']: break (if not self.has_next_page():
\* break)
LastPage(info) == ~info.has_next

\* One iteration of the page loop, up to its call of go_to_next_page.
ScrapePage ==
  /\ pc = "scrape_page"
  /\ page_count < MaxPageCount
  /\ LET p  == Countries(entry)[k]
         sc == ScraperOf(entry)
         n  == page_count + 1
         pagination == PaginationInfo(sc, PaginationDom(view, cur_page, runaway))
         page_transactions == Extracted(sc, RowsOf(view[cur_page]))
         collected == country_transactions \o page_transactions
     IN
     /\ page_count' = n
     /\ last_advance' = NoAdvance
     /\ IF TruthyInt(max_pages) /\ n > max_pages.val
        THEN /\ EndPartition(p, country_transactions, clean)
             /\ UNCHANGED <<pagination_info, country_transactions,
                            pages_processed>>
        ELSE /\ pagination_info' = pagination
             /\ country_transactions' = collected
             /\ pages_processed' = pages_processed + 1
             /\ IF \/ LastPage(pagination)
                   \/ entry = "scrape_transaction_ids" /\ n >= SAFETY_LIMIT
                THEN EndPartition(p, collected, clean)
                ELSE /\ pc' = "go_to_next_page"
                     /\ UNCHANGED <<k, all_transactions, origin, sessions>>
  /\ UNCHANGED <<runInputs, view, cur_page, errors, attempted, rereads,
                 filtered, clean, failures, current_url, resets, applied,
                 tailVars, exVars, fnVars>>

\* go_to_next_page (go_next_page) and the loop's test of its result, for
\* the given outcomes of the driver.  When no row comes after the click the
\* page the grid shows has no rows.
GoToNextPageWith(outcomes) ==
  /\ pc = "go_to_next_page"
  /\ \E o \in outcomes, landed \in BOOLEAN :
       LET p  == Countries(entry)[k]
           r  == Advanced(ScraperOf(entry), o)
       IN
       /\ landed => r.result /\ ~runaway /\ cur_page < Len(view)
       /\ (r.result /\ ~landed) => (runaway \/ rereads < MaxRereads)
       /\ last_advance' = [called |-> TRUE, by |-> ScraperOf(entry),
                           click |-> o, tried |-> r.tried, result |-> r.result]
       /\ IF r.result
          THEN /\ cur_page' = IF landed THEN cur_page + 1 ELSE cur_page
               /\ view' = IF o.wait.rows = "timeout"
                          THEN [view EXCEPT ![cur_page'] = <<>>] ELSE view
               /\ rereads' = IF landed \/ runaway THEN rereads ELSE rereads + 1
               /\ clean' = (clean /\ landed)
               /\ pc' = "scrape_page"
               /\ UNCHANGED <<k, all_transactions, origin, sessions>>
          ELSE /\ clean' = FALSE
               /\ EndPartition(p, PartialResult(country_transactions), FALSE)
               /\ UNCHANGED <<cur_page, view, rereads>>
  /\ UNCHANGED <<runInputs, page_count, pagination_info,
                 country_transactions, errors, attempted, pages_processed,
                 filtered, failures, current_url, resets, applied, tailVars,
                 exVars, fnVars>>

\* The advance on a grid that loads in time.
GoToNextPage ==
  /\ pc = "go_to_next_page"
  /\ GoToNextPageWith(IF runaway THEN {ClickOk} ELSE ClickOutcomes)

\* The advance on a grid that may not load in time: the loader stays, or no
\* row comes.
GoToNextPageSlow ==
  /\ pc = "go_to_next_page"
  /\ GoToNextPageWith({ [ClickOk EXCEPT !.wait = w] : w \in WaitOutcomes })

\* How the try block of the program's main is left once the loop is over:
\* an exception of a program without a country loop reaches main's except;
\* main returns early when nothing was found.
ExitPath ==
  IF ~Multi(entry) /\ errors # <<>> THEN "exception"
  ELSE IF all_transactions = <<>> THEN "no_data"
  ELSE IF errors # <<>> THEN "partition_failure"
  ELSE "success"

\* A program that closes the browser as the last statement of its try block.
C14_CloseOnSuccessOnly(path) == path = "success"

\* finally: scraper.close() runs however the try block was left.
Closes(path) == TRUE

\* The end of main's try block: the summary of main_all_countries.
Finish ==
  /\ pc = "done"
  /\ pc' = "finished"
  /\ exit_path' = ExitPath
  /\ stats' = IF entry = "scrape_all_countries" /\ ExitPath # "exception"
              THEN get_summary_stats(all_transactions) ELSE NoStats
  /\ UNCHANGED <<runInputs, k, view, cur_page, page_count, pagination_info,
                 country_transactions, all_transactions, errors, attempted,
                 origin, sessions, pages_processed, rereads, last_advance,
                 filtered, clean, failures, current_url, resets, applied,
                 driver, exVars, fnVars>>

\* finally: scraper.close()
Close ==
  /\ pc \in {"finished", "interrupted"}
  /\ Closes(exit_path)
  /\ driver = "open"
  /\ driver' = "closed"
  /\ pc' = "closed"
  /\ UNCHANGED <<runInputs, k, view, cur_page, page_count, pagination_info,
                 country_transactions, all_transactions, errors, attempted,
                 origin, sessions, pages_processed, rereads, last_advance,
                 filtered, clean, failures, current_url, resets, applied,
                 exit_path, stats, exVars, fnVars>>

\* The country loop of a program, up to its end.
Next == Navigate \/ SetFilters \/ ScrapePage \/ GoToNextPage

Spec == Init /\ [][Next]_vars

\* KeyboardInterrupt: the user stops the program while it scrapes.
Interrupt ==
  /\ pc \in {"navigate", "set_filters", "scrape_page", "go_to_next_page", "done"}
  /\ pc' = "interrupted"
  /\ exit_path' = "interrupt"
  /\ UNCHANGED <<runInputs, k, view, cur_page, page_count, pagination_info,
                 country_transactions, all_transactions, errors, attempted,
                 origin, sessions, pages_processed, rereads, last_advance,
                 filtered, clean, failures, current_url, resets, applied,
                 driver, stats, exVars, fnVars>>

NextSession == Next \/ Finish \/ Close \/ Interrupt

\* The program from the acquisition of the browser to its release; every
\* statement of main is executed in turn.
SpecSession == Init /\ [][NextSession]_vars /\ WF_vars(NextSession)

\* A site whose pagination bar never shows a last page.
InitCeiling ==
  /\ RunInit({TRUE})
  /\ site = [p \in 1..NumPartitions |-> MkGrid(p, ShapeTwo)]
  /\ ExtractIdle
  /\ FnIdle

SpecCeiling == InitCeiling /\ [][Next]_vars

\* The country loop on a grid that may not load in time after a click.
NextGrid == Navigate \/ SetFilters \/ ScrapePage \/ GoToNextPage \/ GoToNextPageSlow

SpecGrid == Init /\ [][NextGrid]_vars

(***************************************************************************)
(* The extractors on their own: one page of rows, one date filter, one    *)
(* extractor applied to it.                                                *)
(***************************************************************************)
RunIdle ==
  /\ entry = "enhanced_main"
  /\ site = [p \in 1..NumPartitions |-> MkGrid(p, ShapeNone)]
  /\ runaway = FALSE
  /\ max_pages = NoMax
  /\ pc = "idle"
  /\ k = 1
  /\ view = <<>>
  /\ cur_page = 1
  /\ page_count = 0
  /\ pagination_info = DefaultPagination
  /\ country_transactions = <<>>
  /\ all_transactions = <<>>
  /\ errors = <<>>
  /\ attempted = <<>>
  /\ origin = <<>>
  /\ sessions = <<>>
  /\ pages_processed = 0
  /\ rereads = 0
  /\ last_advance = NoAdvance
  /\ filtered = FALSE
  /\ clean = TRUE
  /\ failures = {}
  /\ current_url = "dashboard"
  /\ resets = <<>>
  /\ applied = {}
  /\ driver = "closed"
  /\ exit_path = "none"
  /\ stats = NoStats

runVars ==
  <<entry, site, runaway, max_pages, pc, k, view, cur_page, page_count,
    pagination_info, country_transactions, all_transactions, errors,
    attempted, origin, sessions, pages_processed, rereads, last_advance,
    filtered, clean, failures, current_url, resets, applied, driver,
    exit_path, stats>>

InitExtract ==
  /\ RunIdle
  /\ ex_pc = "ready"
  /\ ex_rows \in ExtractPages
  /\ ex_filter \in DateFilters
  /\ ex_by = "none"
  /\ ex_out = <<>>
  /\ FnIdle

Returned(by, ids) ==
  /\ ex_pc' = "done"
  /\ ex_by' = by
  /\ ex_out' = ids
  /\ UNCHANGED <<ex_rows, ex_filter, runVars, fnVars>>

\* CinetPayScraper.extract_table_data()
CinetPayExtract ==
  /\ ex_pc = "ready" /\ ~ex_filter.set
  /\ Returned("CinetPay", Ids(CinetPay_extract_table_data(PaymentsDom(ex_rows))))

\* ImprovedCinetPayScraper.extract_table_data()
ImprovedExtract ==
  /\ ex_pc = "ready" /\ ~ex_filter.set
  /\ Returned("Improved", Ids(extract_table_data(PaymentsDom(ex_rows))))

\* EnhancedTransactionIDScraper.extract_transaction_ids(date_filter)
EnhancedExtract ==
  /\ ex_pc = "ready"
  /\ Returned("Enhanced", extract_transaction_ids(PayoutDom(ex_rows), ex_filter))

\* FastCinetPayScraper.extract_transaction_ids_fast()
FastExtract ==
  /\ ex_pc = "ready" /\ ~ex_filter.set
  /\ Returned("Fast", extract_transaction_ids_fast(PaymentsDom(ex_rows)))

NextExtract == CinetPayExtract \/ ImprovedExtract \/ EnhancedExtract \/ FastExtract

SpecExtract == InitExtract /\ [][NextExtract]_vars

(***************************************************************************)
(* save_to_csv on its own: one list of records.                            *)
(***************************************************************************)
InitSave ==
  /\ RunIdle
  /\ ex_pc = "ready"
  /\ ex_rows = <<>>
  /\ ex_filter = NoFilter
  /\ ex_by = "none"
  /\ ex_out = <<>>
  /\ sv_records \in SaveInputs
  /\ sv_out = NotWritten
  /\ fl_in = FilterCall({}, {})
  /\ fl_out = FilterStart
  /\ CheckIdle

Saved(by, out) ==
  /\ ex_pc' = "done"
  /\ ex_by' = by
  /\ sv_out' = out
  /\ UNCHANGED <<ex_rows, ex_filter, ex_out, sv_records, fl_in, fl_out, fn_in,
                 fn_out, runVars>>

\* CinetPayScraper.save_to_csv(transactions)
CinetPaySave ==
  /\ ex_pc = "ready"
  /\ Saved("CinetPay", CinetPay_save_to_csv(sv_records))

\* ImprovedCinetPayScraper.save_to_csv(transactions)
ImprovedSave ==
  /\ ex_pc = "ready"
  /\ Saved("Improved", save_to_csv(sv_records))

NextSave == CinetPaySave \/ ImprovedSave

SpecSave == InitSave /\ [][NextSave]_vars

(***************************************************************************)
(* set_filters on its own: one call, one set of failing controls.          *)
(***************************************************************************)
InitFilters ==
  /\ RunIdle
  /\ ex_pc = "ready"
  /\ ex_rows = <<>>
  /\ ex_filter = NoFilter
  /\ ex_by = "none"
  /\ ex_out = <<>>
  /\ sv_records = <<>>
  /\ sv_out = NotWritten
  /\ fl_in \in FilterCalls
  /\ fl_out = FilterStart
  /\ CheckIdle

FiltersSet(by, out) ==
  /\ ex_pc' = "done"
  /\ ex_by' = by
  /\ fl_out' = out
  /\ UNCHANGED <<ex_rows, ex_filter, ex_out, sv_records, sv_out, fl_in, fn_in,
                 fn_out, runVars>>

\* CinetPayScraper.set_filters(country_code, status, date_range, business)
CinetPaySetFilters ==
  /\ ex_pc = "ready"
  /\ FiltersSet("CinetPay", set_filters(fl_in))

\* ImprovedCinetPayScraper.set_filters(country_code, status, date_range,
\* business)
ImprovedSetFilters ==
  /\ ex_pc = "ready"
  /\ FiltersSet("Improved", set_filters(fl_in))

\* FastCinetPayScraper.set_filters_fast(country_code, date_range): the caller
\* gives a country and a date range, and no status.
FastSetFilters ==
  /\ ex_pc = "ready"
  /\ fl_in.spec = {"country", "date_range"}
  /\ FiltersSet("Fast", set_filters_fast(fl_in))

\* EnhancedTransactionIDScraper.set_date_filter(start_date, end_date)
EnhancedSetDateFilter ==
  /\ ex_pc = "ready"
  /\ fl_in.spec = {"date_range"}
  /\ FiltersSet("Enhanced", set_date_filter(fl_in))

NextFilters ==
  CinetPaySetFilters \/ ImprovedSetFilters \/ FastSetFilters \/ EnhancedSetDateFilter

SpecFilters == InitFilters /\ [][NextFilters]_vars

(***************************************************************************)
(* The advance on its own: one page, one call of a scraper's               *)
(* go_to_next_page (go_next_page).                                         *)
(***************************************************************************)
InitAdvance ==
  /\ RunIdle
  /\ ex_pc = "ready"
  /\ ex_rows = <<>>
  /\ ex_filter = NoFilter
  /\ ex_by = "none"
  /\ ex_out = <<>>
  /\ sv_records = <<>>
  /\ sv_out = NotWritten
  /\ fl_in = FilterCall({}, {})
  /\ fl_out = FilterStart
  /\ fn_in \in AdvanceInputs
  /\ fn_out = <<>>

\* The call on the page fn_in: the control the look-up gave, the clicks
\* invoked and the result.
AdvanceCalled(sc) ==
  LET used == next_button(sc, fn_in.found)
      r    == Advanced(sc, [fn_in.click EXCEPT !.resolved = used # "none"])
  IN
  /\ ex_pc' = "done"
  /\ ex_by' = sc
  /\ fn_out' = [result |-> r.result, tried |-> r.tried, used |-> used]
  /\ UNCHANGED <<ex_rows, ex_filter, ex_out, sv_records, sv_out, fl_in,
                 fl_out, fn_in, runVars>>

\* CinetPayScraper.go_to_next_page()
CinetPayAdvance == ex_pc = "ready" /\ AdvanceCalled("CinetPay")

\* ImprovedCinetPayScraper.go_to_next_page()
ImprovedAdvance == ex_pc = "ready" /\ AdvanceCalled("Improved")

\* EnhancedTransactionIDScraper.go_to_next_page()
EnhancedAdvance == ex_pc = "ready" /\ AdvanceCalled("Enhanced")

\* FastCinetPayScraper.go_next_page()
FastAdvance == ex_pc = "ready" /\ AdvanceCalled("Fast")

NextAdvance == CinetPayAdvance \/ ImprovedAdvance \/ EnhancedAdvance \/ FastAdvance

SpecAdvance == InitAdvance /\ [][NextAdvance]_vars

(***************************************************************************)
(* The read of the pagination bar on its own.                              *)
(***************************************************************************)
InitPagination ==
  /\ RunIdle
  /\ ex_pc = "ready"
  /\ ex_rows = <<>>
  /\ ex_filter = NoFilter
  /\ ex_by = "none"
  /\ ex_out = <<>>
  /\ sv_records = <<>>
  /\ sv_out = NotWritten
  /\ fl_in = FilterCall({}, {})
  /\ fl_out = FilterStart
  /\ fn_in \in { b \in PageBars : b.active.set => b.active.text \in b.links }
  /\ fn_out = <<>>

PaginationRead(sc, info) ==
  /\ ex_pc' = "done"
  /\ ex_by' = sc
  /\ fn_out' = info
  /\ UNCHANGED <<ex_rows, ex_filter, ex_out, sv_records, sv_out, fl_in,
                 fl_out, fn_in, runVars>>

\* CinetPayScraper.get_pagination_info()
CinetPayGetPaginationInfo ==
  /\ ex_pc = "ready"
  /\ PaginationRead("CinetPay", CinetPay_get_pagination_info(fn_in))

\* EnhancedTransactionIDScraper.get_pagination_info()
EnhancedGetPaginationInfo ==
  /\ ex_pc = "ready"
  /\ PaginationRead("Enhanced", Enhanced_get_pagination_info_text(fn_in))

NextPagination == CinetPayGetPaginationInfo \/ EnhancedGetPaginationInfo

SpecPagination == InitPagination /\ [][NextPagination]_vars

(***************************************************************************)
(* The extraction of one row with its action link.                         *)
(***************************************************************************)
InitEnrich ==
  /\ RunIdle
  /\ ex_pc = "ready"
  /\ ex_rows \in { <<r>> : r \in ExtractRows }
  /\ ex_filter = NoFilter
  /\ ex_by = "none"
  /\ ex_out = <<>>
  /\ sv_records = <<>>
  /\ sv_out = NotWritten
  /\ fl_in = FilterCall({}, {})
  /\ fl_out = FilterStart
  /\ fn_in \in ActionLinks
  /\ fn_out = <<>>

\* CinetPayScraper.extract_table_data() on a grid of the one row ex_rows[1]
\* whose action link is fn_in.
CinetPayExtractEnriched ==
  /\ ex_pc = "ready"
  /\ LET records == CinetPay_extract_row_enriched(PaymentsDom(ex_rows)[1], fn_in)
     IN /\ fn_out' = records
        /\ ex_out' = Ids(records)
  /\ ex_pc' = "done"
  /\ ex_by' = "CinetPay"
  /\ UNCHANGED <<ex_rows, ex_filter, sv_records, sv_out, fl_in, fl_out, fn_in,
                 runVars>>

NextEnrich == CinetPayExtractEnriched

SpecEnrich == InitEnrich /\ [][NextEnrich]_vars

(***************************************************************************)
(* The extraction of a page of which some rows cannot be read.             *)
(***************************************************************************)
InitRows ==
  /\ RunIdle
  /\ ex_pc = "ready"
  /\ ex_rows \in ExtractPages
  /\ ex_filter = NoFilter
  /\ ex_by = "none"
  /\ ex_out = <<>>
  /\ sv_records = <<>>
  /\ sv_out = NotWritten
  /\ fl_in = FilterCall({}, {})
  /\ fl_out = FilterStart
  /\ fn_in \in [1..Len(ex_rows) -> BOOLEAN]
  /\ fn_out = <<>>

RowsExtracted(sc, dom) ==
  /\ ex_pc' = "done"
  /\ ex_by' = sc
  /\ ex_out' = extract_rows(sc, dom, fn_in)
  /\ UNCHANGED <<ex_rows, ex_filter, sv_records, sv_out, fl_in, fl_out, fn_in,
                 fn_out, runVars>>

\* CinetPayScraper.extract_table_data()
CinetPayExtractRows ==
  /\ ex_pc = "ready"
  /\ RowsExtracted("CinetPay", PaymentsDom(ex_rows))

\* EnhancedTransactionIDScraper.extract_transaction_ids()
EnhancedExtractRows ==
  /\ ex_pc = "ready"
  /\ RowsExtracted("Enhanced", PayoutDom(ex_rows))

\* FastCinetPayScraper.extract_transaction_ids_fast()
FastExtractRows ==
  /\ ex_pc = "ready"
  /\ RowsExtracted("Fast", PaymentsDom(ex_rows))

NextRows == CinetPayExtractRows \/ EnhancedExtractRows \/ FastExtractRows

SpecRows == InitRows /\ [][NextRows]_vars

(***************************************************************************)
(* The summary on its own: one list of records, one get_summary_stats.     *)
(***************************************************************************)
InitSummary ==
  /\ RunIdle
  /\ ex_pc = "ready"
  /\ ex_rows = <<>>
  /\ ex_filter = NoFilter
  /\ ex_by = "none"
  /\ ex_out = <<>>
  /\ sv_records = <<>>
  /\ sv_out = NotWritten
  /\ fl_in = FilterCall({}, {})
  /\ fl_out = FilterStart
  /\ fn_in \in StatInputs
  /\ fn_out = <<>>

\* The list passed is read and not written.
Summarised(sc, summary) ==
  /\ ex_pc' = "done"
  /\ ex_by' = sc
  /\ fn_out' = summary
  /\ UNCHANGED <<ex_rows, ex_filter, ex_out, sv_records, sv_out, fl_in,
                 fl_out, fn_in, runVars>>

\* CinetPayScraper.get_summary_stats(transactions)
CinetPayGetSummaryStats ==
  /\ ex_pc = "ready"
  /\ Summarised("CinetPay", CinetPay_get_summary_stats(fn_in))

\* ImprovedCinetPayScraper.get_summary_stats(transactions)
ImprovedGetSummaryStats ==
  /\ ex_pc = "ready"
  /\ Summarised("Improved", Improved_get_summary_stats(fn_in))

NextSummary == CinetPayGetSummaryStats \/ ImprovedGetSummaryStats

SpecSummary == InitSummary /\ [][NextSummary]_vars

(***************************************************************************)
(* One filter control of EnhancedTransactionIDScraper set on one page.     *)
(***************************************************************************)
InitControls ==
  /\ RunIdle
  /\ ex_pc = "ready"
  /\ ex_rows = <<>>
  /\ ex_filter = NoFilter
  /\ ex_by = "none"
  /\ ex_out = <<>>
  /\ sv_records = <<>>
  /\ sv_out = NotWritten
  /\ fl_in = FilterCall({}, {})
  /\ fl_out = FilterStart
  /\ fn_in \in ControlPages
  /\ fn_out = <<>>

ControlDone(result) ==
  /\ ex_pc' = "done"
  /\ ex_by' = "Enhanced"
  /\ fn_out' = result
  /\ UNCHANGED <<ex_rows, ex_filter, ex_out, sv_records, sv_out, fl_in,
                 fl_out, fn_in, runVars>>

\* EnhancedTransactionIDScraper.set_date_filter(start_date, end_date)
EnhancedSetDateControl ==
  /\ ex_pc = "ready"
  /\ fn_in.field = "date_range"
  /\ ControlDone(Enhanced_set_date_filter(fn_in))

\* EnhancedTransactionIDScraper.set_status_filter(status)
EnhancedSetStatusControl ==
  /\ ex_pc = "ready"
  /\ fn_in.field = "status"
  /\ ControlDone(set_status_filter(fn_in))

\* EnhancedTransactionIDScraper.set_country_filter(country_code)
EnhancedSetCountryControl ==
  /\ ex_pc = "ready"
  /\ fn_in.field = "country"
  /\ ControlDone(set_country_filter(fn_in))

NextControls ==
  EnhancedSetDateControl \/ EnhancedSetStatusControl \/ EnhancedSetCountryControl

SpecControls == InitControls /\ [][NextControls]_vars

(***************************************************************************)
(* Properties.                                                             *)
(***************************************************************************)
Count(x, seq) == Cardinality({ i \in 1..Len(seq) : seq[i] = x })

\* The identifiers the site holds in rows that are transactions.
SiteIds == Range(ExpectedIds(AllPages(site, NumPartitions)))

\* C1: a page loop without max_pages in which every advance moved one page
\* on returns exactly the valid rows of the grid's pages, each once, in page
\* and row order.
C1_ExactRowsInPageOrder ==
  \A i \in 1..Len(sessions) :
    (~max_pages.set /\ sessions[i].clean
       /\ ScraperOf(entry) \in {"CinetPay", "Improved"})
      => sessions[i].ids = sessions[i].expected

\* C2: the number of pages processed in the whole run never exceeds the
\* safety ceiling, whatever the pagination bar reports.
C2_GlobalCeiling == pages_processed <= SAFETY_LIMIT

\* C3: when the run of a country loop is over, every country has been
\* attempted, in order, whichever of them failed.
C3_FailureNeverAborts ==
  (pc = "done" /\ Multi(entry)) => attempted = Countries(entry)

\* C3 witness: the first country failed and the run went on to the last.
C3_LaterPartitionsAttempted ==
  /\ pc = "done"
  /\ entry = "scrape_all_countries"
  /\ errors # <<>> /\ errors[1] = 1
  /\ Len(attempted) = NumPartitions
  /\ all_transactions # <<>>

\* C4: when the only thing the driver failed to do in a run is to locate the
\* submit control for one country, the run's errors are exactly that
\* country's entry, and every country was attempted.
C4_SubmitFailureRecorded ==
  \A q \in 1..NumPartitions :
    (pc = "done" /\ Multi(entry) /\ failures = {[p |-> q, what |-> "submit"]})
      => (errors = <<q>> /\ attempted = Countries(entry))

\* C5: an advance whose native and scripted clicks raise and whose synthetic
\* click does not, has tried the three in that order and returns true,
\* whatever the first two raised.
C5_ThirdStrategySucceeds ==
  (/\ last_advance.called
   /\ last_advance.by \in {"Improved", "CinetPay"}
   /\ last_advance.click.resolved /\ ~last_advance.click.disabled
   /\ last_advance.click.native # "ok"
   /\ last_advance.click.scripted # "ok"
   /\ last_advance.click.synthetic = "ok")
    => (/\ last_advance.result
        /\ last_advance.tried = <<"native", "scripted", "synthetic">>)

\* C6: an advance that found the next control enabled returns false only
\* after the native, the scripted and the synthetic click were each tried
\* and each failed.
C6_FailsOnlyAfterAllThree ==
  (/\ last_advance.called
   /\ last_advance.by \in {"Improved", "CinetPay"}
   /\ last_advance.click.resolved /\ ~last_advance.click.disabled
   /\ ~last_advance.result)
    => (/\ last_advance.tried = <<"native", "scripted", "synthetic">>
        /\ last_advance.click.native # "ok"
        /\ last_advance.click.scripted # "ok"
        /\ last_advance.click.synthetic # "ok")

\* C7: no extractor returns, for any page, an identifier that is empty,
\* blank or the loading placeholder.
C7_NoPlaceholderAccepted ==
  ex_pc = "done" =>
    \A i \in 1..Len(ex_out) :
      /\ ex_out[i] # LoadingText
      /\ \E j \in 1..Len(ex_out[i]) : ex_out[i][j] # " "

\* C8: the list of a page loop holds each transaction of the site it
\* extracted exactly once, also when a page was read twice.
C8_OncePerPartition ==
  \A i \in 1..Len(sessions) :
    \A id \in Range(sessions[i].ids) \cap SiteIds :
      Count(id, sessions[i].ids) = 1

\* C9: in every state of a run, no transaction of the site is in the run's
\* list once from one country and again from another.
C9_UniqueAcrossPartitions ==
  \A i, j \in 1..Len(all_transactions) :
    (i < j /\ origin[i] # origin[j] /\ all_transactions[i] \in SiteIds)
      => all_transactions[i] # all_transactions[j]

\* The identifier a cell of an extraction check was written from.
CanonId(id) ==
  IF id \in {T1, <<" ">> \o T1 \o <<" ">>} THEN T1
  ELSE IF id = T2 THEN T2 ELSE <<>>

\* The rows of a page that carry an identifier and whose day is one of the
\* days from..to.
InRangeIds(rows, from, to) ==
  LET keep == SelectSeq(rows, LAMBDA r :
                /\ ~r.short /\ CanonId(r.id) # <<>>
                /\ from <= r.day /\ r.day <= to)
  IN [i \in 1..Len(keep) |-> CanonId(keep[i].id)]

IsPrefix(a, b) == Len(a) <= Len(b) /\ SubSeq(b, 1, Len(a)) = a

\* C12: a run returns what was accumulated. No step removes a record from
\* the run's list or from the list of the page loop in progress, and the step
\* that ends a page loop, by a failure or not, extends the run's list with
\* every record the loop had accepted.
C12_AccumulatedReturned ==
  [][ /\ IsPrefix(all_transactions, all_transactions')
      /\ (pc \in {"scrape_page", "go_to_next_page"}
            /\ pc' \in {"scrape_page", "go_to_next_page"})
           => IsPrefix(country_transactions, country_transactions')
      /\ (pc \in {"scrape_page", "go_to_next_page"}
            /\ pc' \in {"navigate", "done"})
           => /\ IsPrefix(country_transactions, country_transactions')
              /\ all_transactions' = all_transactions \o country_transactions'
    ]_vars

\* C12 witness: the second country's loop has ended on a failed advance after
\* it had accepted records, and the first country had records too.
C12_FailedAfterRecords ==
  /\ pc = "done"
  /\ last_advance.called /\ ~last_advance.result
  /\ Len(sessions) = 2
  /\ sessions[1].ids # <<>>
  /\ sessions[2].ids # <<>>
  /\ all_transactions = sessions[1].ids \o sessions[2].ids

\* C13: in a country loop, a country whose navigation to the transactions
\* page failed is the last country the run attempts.
C13_NavigationFailureAborts ==
  Multi(entry) =>
    \A i \in 1..Len(attempted) :
      [p |-> attempted[i], what |-> "navigate"] \in failures
        => i = Len(attempted)

\* C16: with max_pages set to M, a page loop that is about to advance has
\* extracted at most M pages.
C16_AtMostMaxPages ==
  (max_pages.set /\ pc = "go_to_next_page") => page_count <= max_pages.val

\* C17: when the filters of a country are about to be set in a run in which
\* the driver has failed at nothing, the transactions page has been loaded
\* for that country since the previous country's loop ended.
C17_ResetBeforeFilters ==
  (pc = "set_filters" /\ failures = {}) =>
    (resets # <<>> /\ resets[Len(resets)] = Countries(entry)[k])

\* C18: when the page loop of a country of a country loop starts, and the
\* driver failed at nothing for that country, the status and date filters and
\* the country's own filter have all been applied since the page was loaded
\* for it.
C18_BaseFiltersAppliedAfterReset ==
  ( /\ entry \in {"scrape_all_countries", "enhanced_main"}
    /\ pc = "scrape_page" /\ page_count = 0
    /\ \A f \in failures : f.p # Countries(entry)[k] )
  => (BaseFilters \subseteq applied /\ filtered)

\* C11: a run of main_all_countries in which no country failed has as many
\* records as its countries' grids have transaction rows, its summary counts
\* the records of every country under that country's key (0 for a country
\* without rows), and no country is reported as failed.
C11_CountsPerPartition ==
  ( /\ entry = "scrape_all_countries" /\ pc = "finished"
    /\ ~max_pages.set /\ failures = {}
    /\ \A i \in 1..Len(sessions) : sessions[i].clean )
  => /\ \A i \in 1..Len(sessions) :
          Len(sessions[i].ids) = Len(sessions[i].expected)
     /\ stats.total_transactions = Len(all_transactions)
     /\ stats.countries =
          { <<PARTITIONS[q], Count(q, origin)>> : q \in 1..NumPartitions }
     /\ errors = <<>>

\* C14: however the program leaves its try block, the browser session is
\* released in the end, and no step of the program is taken once it has been
\* released.
C14_SessionReleased == <>(driver = "closed") /\ [][driver = "open"]_vars

\* C14 witness: the browser was released after the user interrupted a page
\* loop that had collected records.
C14_ReleasedAfterInterrupt ==
  driver = "closed" /\ exit_path = "interrupt" /\ country_transactions # <<>>

\* A transaction_id that is present and has a character that is not
\* whitespace.
IsValidId(r) == r.key /\ r.set /\ strip(r.text) # <<>>

\* C15: every row CinetPayScraper.save_to_csv writes has a transaction_id
\* that is not missing, empty or whitespace only, and nothing is written
\* when no record of the list has one.
C15_OnlyValidIdsWritten ==
  (ex_pc = "done" /\ ex_by = "CinetPay") =>
    /\ \A i \in 1..Len(sv_out.rows) : IsValidId(sv_out.rows[i])
    /\ (\A i \in 1..Len(sv_records) : ~IsValidId(sv_records[i])) => ~sv_out.file

\* C19: when the controls of some fields fail, and the submit button does
\* not, setting the filters raises nothing, attempts every field that was
\* to be set, and invokes the submit button.
C19_SoftFailure ==
  ( /\ ex_pc = "done" /\ ex_by \in {"CinetPay", "Fast"}
    /\ "submit" \notin fl_in.fails )
  => /\ ~fl_out.raised
     /\ fl_in.spec \subseteq fl_out.attempted
     /\ fl_out.submit

\* C20: setting the filters returns a set of fields, and a field is in it
\* exactly when it was to be set and setting it succeeded.
C20_ReturnsAppliedFields ==
  (ex_pc = "done" /\ ex_by \in {"CinetPay", "Enhanced"}) =>
    /\ fl_out.returned.set
    /\ fl_out.returned.fields = fl_in.spec \ fl_in.fails

\* C23: a page loop that stopped because the next control could not be
\* found or clicked is recorded as a failure of its country (a loop that
\* stopped on a disabled next control is not).
C23_FailedAdvanceRecorded ==
  (/\ last_advance.called /\ ~last_advance.result
   /\ ~(last_advance.click.resolved /\ last_advance.click.disabled))
    => (/\ sessions # <<>>
        /\ sessions[Len(sessions)].p \in Range(errors))

\* C24: the countries of a run are attempted once each, in the order given
\* and one after the other: every step stays with the current country or
\* moves to the next one, whose first operation is the navigation, and the
\* countries attempted are always the first ones of the run's list.
C24_OnceInOrderSequential ==
  [][ /\ k' \in {k, k + 1}
      /\ (k' = k + 1) => pc' = "navigate"
      /\ (attempted' # attempted)
           => (pc = "navigate"
                 /\ attempted' = Append(attempted, Countries(entry)[k]))
      /\ IsPrefix(attempted', Countries(entry))
    ]_vars

\* C24 witness: the run is over, the first country failed and was attempted
\* once, and the second country was attempted after it.
C24_FailedNotRetried ==
  /\ pc = "done"
  /\ entry = "scrape_all_countries"
  /\ 1 \in Range(errors)
  /\ Count(1, attempted) = 1
  /\ Len(attempted) >= 2 /\ attempted[1] = 1 /\ attempted[2] = 2
  /\ \E i \in 1..Len(sessions) : sessions[i].p = 2 /\ sessions[i].ids # <<>>

C29_NoAdvanceAtCeiling ==
  (TruthyInt(max_pages) /\ pc = "go_to_next_page")
    => page_count < max_pages.val

\* C27: an advance that found the next control under a disabled parent
\* returns false and has invoked no click.
C27_DisabledNeverClicked ==
  (ex_pc = "done" /\ fn_out.used # "none" /\ fn_in.click.disabled)
    => (~fn_out.result /\ fn_out.tried = <<>>)

\* C28: advance looks the next control up with the four selectors in their
\* order and takes the first that matches: it has no control only when none
\* of the four matches.
C28_FirstOfFourLocators ==
  (ex_pc = "done" /\ ex_by \in {"CinetPay", "Improved"})
    => fn_out.used = find_first(next_selectors, fn_in.found)

\* The outcome of a way of clicking on a page.
Outcome(o, method) ==
  CASE method = "native" -> o.native
    [] method = "scripted" -> o.scripted
    [] method = "synthetic" -> o.synthetic

\* C30: an advance whose last click did not raise returns true, whatever the
\* wait for the loader and for the rows met.
C30_WaitNeverFails ==
  (/\ ex_pc = "done" /\ ex_by \in {"CinetPay", "Improved"}
   /\ fn_out.tried # <<>>
   /\ Outcome(fn_in.click, fn_out.tried[Len(fn_out.tried)]) = "ok")
    => fn_out.result

\* C30 witness: the scripted click went through, the loader never went away
\* and no row came, and the advance returned true.
C30_TrueAfterTimeouts ==
  /\ ex_pc = "done" /\ ex_by = "Improved"
  /\ fn_out.tried = <<"native", "scripted">>
  /\ fn_in.click.wait = Wait("timeout", "timeout")
  /\ fn_out.result

\* C26: whatever the pagination bar holds, the state read from it has
\* current_page >= 1 and total_pages >= current_page.
C26_PaginationStateBounds ==
  ex_pc = "done"
    => (/\ fn_out.current_page >= 1
        /\ fn_out.total_pages >= fn_out.current_page)

\* C21: a row with an identifier whose data-json payload is no usable
\* object (it does not parse, or it parses to a value that is no object)
\* yields one record, with the base fields of the row only.
C21_MalformedPayloadKeepsRow ==
  (/\ ex_pc = "done"
   /\ CinetPay_extract_row(PaymentsDom(ex_rows)[1]) # <<>>
   /\ fn_in.present /\ fn_in.data_json.set
   /\ json_loads(fn_in.data_json.text).type # "dict")
    => (/\ Len(fn_out) = 1
        /\ ~fn_out[1].enriched
        /\ fn_out[1].transaction_id = strip(ex_rows[1].id))

\* C22: once the grid did not load in time after a click (the loader stayed
\* or no row came), the page loop of the country is over: nothing more is
\* extracted and no further advance is made for it.
C22_TimeoutEndsLoop ==
  (/\ last_advance.called /\ last_advance.result
   /\ last_advance.by \in {"CinetPay", "Enhanced"}
   /\ \/ last_advance.click.wait.loader = "timeout"
      \/ last_advance.click.wait.rows = "timeout")
    => pc \in {"navigate", "done"}

\* C34: advance is never invoked after a page whose pagination state said
\* has_next = false: the step that extracts such a page ends the page loop,
\* and whenever the loop is about to call advance the state it read last
\* has has_next = true.
C34_NoAdvanceWithoutNext ==
  [][ /\ (pc = "scrape_page" /\ pages_processed' = pages_processed + 1
            /\ ~pagination_info'.has_next)
           => (pc' \in {"navigate", "done"} /\ ~last_advance'.called)
      /\ (pc' = "go_to_next_page") => pagination_info'.has_next
    ]_vars

\* C34 witness: a page loop advanced to its second page, read has_next =
\* false there, extracted the page and ended.
C34_EndedOnSecondPage ==
  /\ pc \in {"navigate", "done"}
  /\ sessions # <<>> /\ sessions[Len(sessions)].clean
  /\ pagination_info.current_page = 2 /\ ~pagination_info.has_next
  /\ pages_processed >= 2
  /\ ~last_advance.called

\* C35: an advance that returns false ends the page loop of its country and
\* nothing else: the step extracts nothing, the loop's list goes to the run's
\* list, and the run goes on with the navigation of the next country when
\* there is one.
C35_FalseAdvanceEndsPartitionOnly ==
  [][ (pc = "go_to_next_page" /\ last_advance'.called /\ ~last_advance'.result)
        => (/\ pages_processed' = pages_processed
            /\ country_transactions' = country_transactions
            /\ all_transactions' = all_transactions \o country_transactions
            /\ Len(sessions') = Len(sessions) + 1
            /\ IF k < Len(Countries(entry))
               THEN pc' = "navigate" /\ k' = k + 1
               ELSE pc' = "done" /\ k' = k)
    ]_vars

\* C35 witness: the first country's loop ended on an advance that returned
\* false, and the second country's loop then advanced to its second page and
\* extracted it.
C35_NextPartitionAdvances ==
  /\ Len(sessions) >= 2
  /\ ~sessions[1].clean /\ sessions[1].p = 1
  /\ sessions[2].p = 2 /\ sessions[2].clean
  /\ Len(sessions[2].ids) = Len(sessions[2].expected)
  /\ Len(site[2]) = 2
  /\ errors = <<>>

\* The rows of a page whose date text denotes no day.
Undated(rows) == { i \in 1..Len(rows) : rows[i].short \/ rows[i].day = 0 }

\* C36: under a date filter the rows whose date cannot be parsed are left
\* out (what is returned is the in-range rows among the dated ones); without
\* a date filter every row with an identifier is returned, dated or not.
C36_UnparsedDateExcluded ==
  (ex_pc = "done" /\ ex_by = "Enhanced")
    => IF ex_filter.set
       THEN ex_out = InRangeIds(ex_rows, ex_filter.from, ex_filter.to)
       ELSE ex_out = InRangeIds(ex_rows, 0, NumDays)

\* C36 witness: under a date filter, a page with a row whose date cell is
\* empty and a row dated in the range yields the second row only.
C36_UndatedRowLeftOut ==
  /\ ex_pc = "done" /\ ex_by = "Enhanced"
  /\ ex_filter.set
  /\ Len(ex_rows) = 2
  /\ Undated(ex_rows) = {1}
  /\ ex_rows[1].date = <<>> /\ ex_rows[1].id = T2
  /\ ex_out = <<T1>>

\* The rows of a page that can be read, in row order.
RECURSIVE Readable(_, _)
Readable(rows, stale) ==
  IF rows = <<>> THEN <<>>
  ELSE (IF Head(stale) THEN <<>> ELSE <<Head(rows)>>)
         \o Readable(Tail(rows), Tail(stale))

RECURSIVE SumCounts(_)
SumCounts(counts) ==
  IF DOMAIN counts = {} THEN 0
  ELSE LET v == CHOOSE x \in DOMAIN counts : TRUE
       IN counts[v] + SumCounts([x \in DOMAIN counts \ {v} |-> counts[x]])

\* C33: the summary of a list of records has the number of records as its
\* total, and the counts of every grouping it reports sum to that total.
C33_GroupCountsSumToTotal ==
  (ex_pc = "done" /\ fn_in # <<>>)
    => (/\ fn_out.has_total
        /\ fn_out.total_transactions = Len(fn_in)
        /\ \A b \in DOMAIN fn_out.groups :
             SumCounts(fn_out.groups[b]) = fn_out.total_transactions)

\* C32: setting the filters operates only the controls of the fields the
\* caller set: no control of a field left unset is attempted.
C32_OnlySetFieldsTouched ==
  (ex_pc = "done" /\ ex_by \in {"CinetPay", "Fast"}) =>
    fl_out.attempted \subseteq fl_in.spec

\* C31: for each filter field the script is run exactly when no selector
\* of the field resolves; when one resolves the value is set through the
\* native interaction only, on the element of the first selector of the
\* list that resolves.
C31_ScriptedExactlyWhenUnresolved ==
  ex_pc = "done" =>
    /\ fn_out.scripted <=> fn_in.found = {}
    /\ fn_in.found # {} =>
         /\ fn_out.native
         /\ ~fn_out.scripted
         /\ fn_out.used = find_first(SelectorSet(fn_in.field), fn_in.found)

=============================================================================
